---- MODULE Spec2Model ----
(***************************************************************************)
(* A model of kvmb/Cloak:                                                  *)
(*   - internal/multiplex/session.go: the Session (stream table, accept    *)
(*     queue, close coordination), as a state machine of concurrent tasks; *)
(*   - the client State's ParseConfig and ssvToJson, as functions on       *)
(*     strings (sequences of characters).                                  *)
(***************************************************************************)
EXTENDS Integers, Sequences, FiniteSets, TLC

(***************************************************************************)
(* Bounds of the model.                                                    *)
(***************************************************************************)
\* Number of goroutines that call into the Session.
NumTasks == 2
\* Total number of Stream objects makeStream may construct in one run.
MaxStreams == 3
\* Stream ids a caller (delStream, isStream, getStream) names.
MaxId == 1
\* Stream ids a peer names (addStream).
MaxPeerId == 2
\* Capacity of acceptCh. session.go:15 sets 1024; the model scales it down so that
\* a full queue is reachable.
acceptBacklog == 2

Tasks == 1 .. NumTasks
StreamIds == 1 .. MaxId
PeerIds == 1 .. MaxPeerId

(***************************************************************************)
(* Values.                                                                 *)
(***************************************************************************)
errBrokenSession == "broken session"
errRepeatSessionClosing == "trying to close a closed session"
errNil == "nil"
\* A panic of the Go runtime ("close of nil channel", "index out of range").
errPanic == "panic"

\* The nil *Stream.
NoStream == [id |-> 0, n |-> 0]
\* No task holds the mutex.
NoTask == 0

VARIABLES
    nextStreamID,   \* Session.nextStreamID
    streams,        \* Session.streams: a function from the ids present to Streams
    streamsM,       \* Session.streamsM: [w |-> writer or NoTask, r |-> set of readers]
    acceptCh,       \* Session.acceptCh: the buffered Streams, oldest first
    closeQCh,       \* Session.closeQCh: the buffered ids
    closingM,       \* Session.closingM: the holder or NoTask
    die,            \* Session.die: "nil", "open" or "closed"
    closing,        \* Session.closing
    alive,          \* the process is running (FALSE once a panic has ended it)
    pc,             \* pc[t]: where task t stands
    sid,            \* sid[t]: the id local of task t's call
    strm,           \* strm[t]: the stream local of task t's call
    last,           \* the latest return: the task, the call, and what it returned
    made,           \* number of Streams makeStream has constructed
    spawned,        \* the Streams for which Close started `go stream.closeNoDelMap()`
    olog,           \* history: the ids OpenStream returned, in order of return
    overlap,        \* history: two OpenStream calls have run concurrently
    shutdowns,      \* history: the tasks whose Close raised die and swept the table
    unchecked,      \* history: addStream was called for an id the table held
    ilog,           \* history: the Streams addStream inserted, in order of insertion
    cfg,            \* the configuration the inputs were written from, if any
    conf,           \* ParseConfig's arguments: the single-line form, the path
    file,           \* the file at that path: whether it exists, its content
    sta,            \* sta[r]: the client State of run r
    err,            \* err[r]: what ParseConfig returned in run r
    cpc,            \* cpc[r]: where the ParseConfig call of run r stands
    content,        \* content[r]: ParseConfig's local content
    pre,            \* pre[r]: ParseConfig's local preParse
    kv              \* history: the key/value pairs ssvToJson's loop split off

seshVars == <<nextStreamID, streams, streamsM, acceptCh, closeQCh, closingM, die,
              closing, alive, pc, sid, strm, last, made, spawned, olog, overlap,
              shutdowns, unchecked, ilog>>
confVars == <<cfg, conf, file, sta, err, cpc, content, pre, kv>>
vars == <<seshVars, confVars>>

(***************************************************************************)
(* Helpers.                                                                *)
(***************************************************************************)
\* makeStream(id, sesh): a fresh Stream object; n tells objects of one id apart.
makeStream(id, n) == [id |-> id, n |-> n]

\* The value a call hands back: a *Stream (or nil), an error (or nil), a bool.
Ret(op, s, e, ok) == [op |-> op, stream |-> s, err |-> e, ok |-> ok]
\* No call has returned yet.
NoRet == [task |-> NoTask, op |-> "none", stream |-> NoStream, err |-> errNil, ok |-> FALSE]

\* map[uint32]*Stream
EmptyMap == [x \in {} |-> NoStream]
Put(m, k, v) == [x \in (DOMAIN m) \cup {k} |-> IF x = k THEN v ELSE m[x]]
Del(m, k) == [x \in (DOMAIN m) \ {k} |-> m[x]]
Lookup(m, k) == IF k \in DOMAIN m THEN m[k] ELSE NoStream

\* sync.RWMutex
Unlocked == [w |-> NoTask, r |-> {}]
CanLock(m) == m.w = NoTask /\ m.r = {}
CanRLock(m) == m.w = NoTask
Lock(m, t) == [m EXCEPT !.w = t]
RLock(m, t) == [m EXCEPT !.r = @ \cup {t}]
RUnlock(m, t) == [m EXCEPT !.r = @ \ {t}]

\* Task t stands at label l of a running process.
At(t, l) == alive /\ pc[t] = l

\* Task t returns v to its caller.
Return(t, v) ==
    /\ pc' = [pc EXCEPT ![t] = "idle"]
    /\ last' = [task |-> t, op |-> v.op, stream |-> v.stream, err |-> v.err, ok |-> v.ok]
    /\ sid' = [sid EXCEPT ![t] = 0]
    /\ strm' = [strm EXCEPT ![t] = NoStream]

\* Task t moves to label l.
Goto(t, l) == pc' = [pc EXCEPT ![t] = l]

OpenLabels == {"openLock", "openInsert"}

(***************************************************************************)
(* MakeSession: the Session as constructed. die is not allocated: it is    *)
(* the zero value of a channel, nil.                                       *)
(***************************************************************************)
MakeSession ==
    /\ nextStreamID = 1
    /\ streams = EmptyMap
    /\ streamsM = Unlocked
    /\ acceptCh = <<>>
    /\ closeQCh = <<>>
    /\ closingM = NoTask
    /\ die = "nil"
    /\ closing = FALSE

TasksIdle ==
    /\ alive = TRUE
    /\ pc = [t \in Tasks |-> "idle"]
    /\ sid = [t \in Tasks |-> 0]
    /\ strm = [t \in Tasks |-> NoStream]
    /\ last = NoRet
    /\ made = 0
    /\ spawned = {}
    /\ olog = <<>>
    /\ overlap = FALSE
    /\ shutdowns = {}
    /\ unchecked = FALSE
    /\ ilog = <<>>

(***************************************************************************)
(* OpenStream                                                              *)
(***************************************************************************)
\* atomic.AddUint32(&n, 1): the value after the increment. The counter wraps at
\* 2^32, which MaxStreams calls never reach.
AtomicAddUint32(n) == n + 1

\* A non-atomic increment: the update is lost when another OpenStream is under way.
OpenStreamAddLost(t) ==
    /\ At(t, "idle")
    /\ made < MaxStreams
    /\ nextStreamID' = IF \E u \in Tasks \ {t} : pc[u] \in OpenLabels
                         THEN nextStreamID
                         ELSE AtomicAddUint32(nextStreamID)
    /\ sid' = [sid EXCEPT ![t] = IF nextStreamID' = nextStreamID
                                   THEN nextStreamID - 1 ELSE nextStreamID]
    /\ strm' = [strm EXCEPT ![t] = makeStream(sid'[t], made + 1)]
    /\ made' = made + 1
    /\ overlap' = (overlap \/ \E u \in Tasks \ {t} : pc[u] \in OpenLabels)
    /\ Goto(t, "openLock")
    /\ UNCHANGED <<streams, streamsM, acceptCh, closeQCh, closingM, die, closing,
                   alive, last, spawned, olog, shutdowns,
                   unchecked, ilog, confVars>>

\* Lines 71-73: id := atomic.AddUint32(&sesh.nextStreamID, 1); id -= 1;
\* stream := makeStream(id, sesh).
OpenStreamAdd(t) ==
    /\ At(t, "idle")
    /\ made < MaxStreams
    /\ nextStreamID' = AtomicAddUint32(nextStreamID)
    /\ sid' = [sid EXCEPT ![t] = nextStreamID' - 1]
    /\ strm' = [strm EXCEPT ![t] = makeStream(sid'[t], made + 1)]
    /\ made' = made + 1
    /\ overlap' = (overlap \/ \E u \in Tasks \ {t} : pc[u] \in OpenLabels)
    /\ Goto(t, "openLock")
    /\ UNCHANGED <<streams, streamsM, acceptCh, closeQCh, closingM, die, closing,
                   alive, last, spawned, olog, shutdowns,
                   unchecked, ilog, confVars>>

\* OpenStream without the Lock of line 74: the insertion runs unprotected.
OpenStreamLockSkipped(t) ==
    /\ At(t, "openLock")
    /\ Goto(t, "openInsert")
    /\ UNCHANGED <<nextStreamID, streams, streamsM, acceptCh, closeQCh, closingM, die,
                   closing, alive, sid, strm, last, made, spawned, olog, overlap,
                   shutdowns, unchecked, ilog, confVars>>

\* Line 74: sesh.streamsM.Lock()
OpenStreamLock(t) ==
    /\ At(t, "openLock")
    /\ CanLock(streamsM)
    /\ streamsM' = Lock(streamsM, t)
    /\ Goto(t, "openInsert")
    /\ UNCHANGED <<nextStreamID, streams, acceptCh, closeQCh, closingM, die, closing,
                   alive, sid, strm, last, made, spawned, olog, overlap, shutdowns,
                   unchecked, ilog, confVars>>

\* OpenStream that also offers the new stream to AcceptStream, as addStream does.
OpenStreamInsertAccept(t) ==
    /\ At(t, "openInsert")
    /\ streams' = Put(streams, sid[t], strm[t])
    /\ streamsM' = Unlocked
    /\ acceptCh' = IF Len(acceptCh) < acceptBacklog
                     THEN Append(acceptCh, strm[t]) ELSE acceptCh
    /\ olog' = Append(olog, sid[t])
    /\ Return(t, Ret("OpenStream", strm[t], errNil, TRUE))
    /\ UNCHANGED <<nextStreamID, closeQCh, closingM, die, closing, alive, made,
                   spawned, overlap, shutdowns,
                   unchecked, ilog, confVars>>

\* Lines 75-77: sesh.streams[id] = stream; Unlock; return stream, nil
OpenStreamInsert(t) ==
    /\ At(t, "openInsert")
    /\ streams' = Put(streams, sid[t], strm[t])
    /\ streamsM' = Unlocked
    /\ olog' = Append(olog, sid[t])
    /\ Return(t, Ret("OpenStream", strm[t], errNil, TRUE))
    /\ UNCHANGED <<nextStreamID, acceptCh, closeQCh, closingM, die, closing, alive,
                   made, spawned, overlap, shutdowns,
                   unchecked, ilog, confVars>>

(***************************************************************************)
(* AcceptStream: select { case <-sesh.die ; case stream := <-sesh.acceptCh } *)
(***************************************************************************)
\* The call is made and reaches the select.
AcceptStreamCall(t) ==
    /\ At(t, "idle")
    /\ Goto(t, "accept")
    /\ UNCHANGED <<nextStreamID, streams, streamsM, acceptCh, closeQCh, closingM, die,
                   closing, alive, sid, strm, last, made, spawned, olog, overlap,
                   shutdowns,
                   unchecked, ilog, confVars>>

\* A receive from a channel of struct{} that nothing sends on is ready when the
\* channel is closed; a receive from a nil or an open channel blocks.
RecvReady(ch) == ch = "closed"

\* The cases of the select that can proceed; Go picks one of them, any one.
AcceptStreamCases ==
    (IF RecvReady(die) THEN {"die"} ELSE {}) \cup
    (IF acceptCh # <<>> THEN {"acceptCh"} ELSE {})

\* Lines 81-86: case <-sesh.die: return nil, errors.New(errBrokenSession)
\*              case stream := <-sesh.acceptCh: return stream, nil
AcceptStreamSelect(t) ==
    /\ At(t, "accept")
    /\ \E c \in AcceptStreamCases :
          IF c = "die"
            THEN /\ Return(t, Ret("AcceptStream", NoStream, errBrokenSession, FALSE))
                 /\ UNCHANGED acceptCh
            ELSE /\ acceptCh' = Tail(acceptCh)
                 /\ Return(t, Ret("AcceptStream", Head(acceptCh), errNil, TRUE))
    /\ UNCHANGED <<nextStreamID, streams, streamsM, closeQCh, closingM, die, closing,
                   alive, made, spawned, olog, overlap, shutdowns,
                   unchecked, ilog, confVars>>

(***************************************************************************)
(* delStream, isStream, getStream                                          *)
(***************************************************************************)
\* Line 91: sesh.streamsM.Lock()
DelStreamLock(t, id) ==
    /\ At(t, "idle")
    /\ CanLock(streamsM)
    /\ streamsM' = Lock(streamsM, t)
    /\ sid' = [sid EXCEPT ![t] = id]
    /\ Goto(t, "delDelete")
    /\ UNCHANGED <<nextStreamID, streams, acceptCh, closeQCh, closingM, die, closing,
                   alive, strm, last, made, spawned, olog, overlap, shutdowns,
                   unchecked, ilog, confVars>>

\* Lines 92-93: delete(sesh.streams, id); Unlock
DelStreamDelete(t) ==
    /\ At(t, "delDelete")
    /\ streams' = Del(streams, sid[t])
    /\ streamsM' = Unlocked
    /\ Return(t, Ret("delStream", NoStream, errNil, TRUE))
    /\ UNCHANGED <<nextStreamID, acceptCh, closeQCh, closingM, die, closing, alive,
                   made, spawned, olog, overlap, shutdowns,
                   unchecked, ilog, confVars>>

\* Line 97: sesh.streamsM.RLock()
IsStreamRLock(t, id) ==
    /\ At(t, "idle")
    /\ CanRLock(streamsM)
    /\ streamsM' = RLock(streamsM, t)
    /\ sid' = [sid EXCEPT ![t] = id]
    /\ Goto(t, "isRead")
    /\ UNCHANGED <<nextStreamID, streams, acceptCh, closeQCh, closingM, die, closing,
                   alive, strm, last, made, spawned, olog, overlap, shutdowns,
                   unchecked, ilog, confVars>>

\* Lines 98-100: _, ok := sesh.streams[id]; RUnlock; return ok
IsStreamRead(t) ==
    /\ At(t, "isRead")
    /\ streamsM' = RUnlock(streamsM, t)
    /\ Return(t, Ret("isStream", NoStream, errNil, sid[t] \in DOMAIN streams))
    /\ UNCHANGED <<nextStreamID, streams, acceptCh, closeQCh, closingM, die, closing,
                   alive, made, spawned, olog, overlap, shutdowns,
                   unchecked, ilog, confVars>>

\* Line 104: sesh.streamsM.RLock()
GetStreamRLock(t, id) ==
    /\ At(t, "idle")
    /\ CanRLock(streamsM)
    /\ streamsM' = RLock(streamsM, t)
    /\ sid' = [sid EXCEPT ![t] = id]
    /\ Goto(t, "getRead")
    /\ UNCHANGED <<nextStreamID, streams, acceptCh, closeQCh, closingM, die, closing,
                   alive, strm, last, made, spawned, olog, overlap, shutdowns,
                   unchecked, ilog, confVars>>

\* Lines 105-106: return sesh.streams[id], then the deferred RUnlock
GetStreamRead(t) ==
    /\ At(t, "getRead")
    /\ streamsM' = RUnlock(streamsM, t)
    /\ Return(t, Ret("getStream", Lookup(streams, sid[t]), errNil,
                     sid[t] \in DOMAIN streams))
    /\ UNCHANGED <<nextStreamID, streams, acceptCh, closeQCh, closingM, die, closing,
                   alive, made, spawned, olog, overlap, shutdowns,
                   unchecked, ilog, confVars>>

(***************************************************************************)
(* addStream                                                               *)
(***************************************************************************)
\* Lines 111-112: stream := makeStream(id, sesh)
AddStreamMake(t, id) ==
    /\ At(t, "idle")
    /\ made < MaxStreams
    /\ sid' = [sid EXCEPT ![t] = id]
    /\ strm' = [strm EXCEPT ![t] = makeStream(id, made + 1)]
    /\ made' = made + 1
    /\ unchecked' = (unchecked \/ id \in DOMAIN streams)
    /\ Goto(t, "addLock")
    /\ UNCHANGED <<nextStreamID, streams, streamsM, acceptCh, closeQCh, closingM, die,
                   closing, alive, last, spawned, olog, overlap, shutdowns,
                   ilog, confVars>>

\* Line 113: sesh.streamsM.Lock()
AddStreamLock(t) ==
    /\ At(t, "addLock")
    /\ CanLock(streamsM)
    /\ streamsM' = Lock(streamsM, t)
    /\ Goto(t, "addInsert")
    /\ UNCHANGED <<nextStreamID, streams, acceptCh, closeQCh, closingM, die, closing,
                   alive, sid, strm, last, made, spawned, olog, overlap, shutdowns,
                   unchecked, ilog, confVars>>

\* addStream with the Unlock moved behind the send: the table lock is held at
\* line 116.
AddStreamInsertLocked(t) ==
    /\ At(t, "addInsert")
    /\ streams' = Put(streams, sid[t], strm[t])
    /\ ilog' = Append(ilog, strm[t])
    /\ Goto(t, "addSend")
    /\ UNCHANGED <<nextStreamID, streamsM, acceptCh, closeQCh, closingM, die, closing,
                   alive, sid, strm, last, made, spawned, olog, overlap, shutdowns,
                   unchecked, confVars>>

\* Lines 114-115: sesh.streams[id] = stream; Unlock
AddStreamInsert(t) ==
    /\ At(t, "addInsert")
    /\ streams' = Put(streams, sid[t], strm[t])
    /\ streamsM' = Unlocked
    /\ ilog' = Append(ilog, strm[t])
    /\ Goto(t, "addSend")
    /\ UNCHANGED <<nextStreamID, acceptCh, closeQCh, closingM, die, closing, alive,
                   sid, strm, last, made, spawned, olog, overlap, shutdowns,
                   unchecked, confVars>>

\* A send on a buffered channel is ready while the buffer has room; the code has
\* no select and no default around it.
SendReady(ch, cap) == Len(ch) < cap

\* Lines 116-117: sesh.acceptCh <- stream; return stream
AddStreamSend(t) ==
    /\ At(t, "addSend")
    /\ SendReady(acceptCh, acceptBacklog)
    /\ acceptCh' = Append(acceptCh, strm[t])
    /\ Return(t, Ret("addStream", strm[t], errNil, TRUE))
    /\ UNCHANGED <<nextStreamID, streams, streamsM, closeQCh, closingM, die, closing,
                   alive, made, spawned, olog, overlap, shutdowns,
                   unchecked, ilog, confVars>>

(***************************************************************************)
(* Close                                                                   *)
(***************************************************************************)
\* Line 122: sesh.closingM.Lock(); line 123 defers the Unlock.
CloseLock(t) ==
    /\ At(t, "idle")
    /\ closingM = NoTask
    /\ closingM' = t
    /\ Goto(t, "closeCheck")
    /\ UNCHANGED <<nextStreamID, streams, streamsM, acceptCh, closeQCh, die, closing,
                   alive, sid, strm, last, made, spawned, olog, overlap, shutdowns,
                   unchecked, ilog, confVars>>

\* Lines 124-127: if sesh.closing { return errors.New(errRepeatSessionClosing) }
\* (the deferred Unlock runs); sesh.closing = true
CloseCheck(t) ==
    /\ At(t, "closeCheck")
    /\ IF closing
         THEN /\ closingM' = NoTask
              /\ Return(t, Ret("Close", NoStream, errRepeatSessionClosing, FALSE))
              /\ UNCHANGED closing
         ELSE /\ closing' = TRUE
              /\ Goto(t, "closeDie")
              /\ UNCHANGED <<closingM, sid, strm, last>>
    /\ UNCHANGED <<nextStreamID, streams, streamsM, acceptCh, closeQCh, die, alive,
                   made, spawned, olog, overlap, shutdowns,
                   unchecked, ilog, confVars>>

\* close(ch) panics on a nil channel and on a closed one.
ClosePanics(ch) == ch # "open"

\* Line 128: close(sesh.die). A panic unwinds Close: the deferred Unlock of
\* closingM runs, and the panic goes on to the caller.
CloseDie(t) ==
    /\ At(t, "closeDie")
    /\ IF ClosePanics(die)
         THEN /\ closingM' = NoTask
              /\ Goto(t, "panicked")
              /\ UNCHANGED die
         ELSE /\ die' = "closed"
              /\ Goto(t, "closeSweepLock")
              /\ UNCHANGED closingM
    /\ UNCHANGED <<nextStreamID, streams, streamsM, acceptCh, closeQCh, closing,
                   alive, sid, strm, last, made, spawned, olog, overlap, shutdowns,
                   unchecked, ilog, confVars>>

\* Line 129: sesh.streamsM.Lock()
CloseSweepLock(t) ==
    /\ At(t, "closeSweepLock")
    /\ CanLock(streamsM)
    /\ streamsM' = Lock(streamsM, t)
    /\ Goto(t, "closeSweep")
    /\ UNCHANGED <<nextStreamID, streams, acceptCh, closeQCh, closingM, die, closing,
                   alive, sid, strm, last, made, spawned, olog, overlap, shutdowns,
                   unchecked, ilog, confVars>>

\* Lines 130-141: for id, stream := range sesh.streams { go stream.closeNoDelMap();
\* delete(sesh.streams, id) }; Unlock; return nil (the deferred Unlock runs).
CloseSweep(t) ==
    /\ At(t, "closeSweep")
    /\ spawned' = spawned \cup {streams[id] : id \in DOMAIN streams}
    /\ streams' = EmptyMap
    /\ streamsM' = Unlocked
    /\ closingM' = NoTask
    /\ shutdowns' = shutdowns \cup {t}
    /\ Return(t, Ret("Close", NoStream, errNil, TRUE))
    /\ UNCHANGED <<nextStreamID, acceptCh, closeQCh, die, closing, alive, made, olog,
                   overlap,
                   unchecked, ilog, confVars>>

(***************************************************************************)
(* A panic that left Close: the caller recovers it, or it ends the process *)
(* (the goroutines run on until the runtime exits).                        *)
(***************************************************************************)
Recover(t) ==
    /\ At(t, "panicked")
    /\ Return(t, Ret("Close", NoStream, errPanic, FALSE))
    /\ UNCHANGED <<nextStreamID, streams, streamsM, acceptCh, closeQCh, closingM, die,
                   closing, alive, made, spawned, olog, overlap, shutdowns,
                   unchecked, ilog, confVars>>

Crash ==
    /\ alive
    /\ \E t \in Tasks : pc[t] = "panicked"
    /\ alive' = FALSE
    /\ UNCHANGED <<nextStreamID, streams, streamsM, acceptCh, closeQCh, closingM, die,
                   closing, pc, sid, strm, last, made, spawned, olog, overlap,
                   shutdowns,
                   unchecked, ilog, confVars>>

(***************************************************************************)
(* The Session built by MakeSession, called by NumTasks goroutines.        *)
(***************************************************************************)
\* The configuration side is at rest while the Session runs.
ConfIdle ==
    /\ cfg = <<>>
    /\ conf = <<>>
    /\ file = <<>>
    /\ sta = <<>>
    /\ err = <<>>
    /\ cpc = <<>>
    /\ content = <<>>
    /\ pre = <<>>
    /\ kv = <<>>

Init == MakeSession /\ TasksIdle /\ ConfIdle

\* A task makes a call.
Call(t) ==
    \/ OpenStreamAdd(t)
    \/ AcceptStreamCall(t)
    \/ CloseLock(t)
    \/ \E id \in PeerIds : AddStreamMake(t, id)
    \/ \E id \in StreamIds :
          \/ DelStreamLock(t, id)
          \/ IsStreamRLock(t, id)
          \/ GetStreamRLock(t, id)

\* A task goes on in the call it is in.
Step(t) ==
    \/ OpenStreamLock(t)
    \/ OpenStreamInsert(t)
    \/ AcceptStreamSelect(t)
    \/ DelStreamDelete(t)
    \/ IsStreamRead(t)
    \/ GetStreamRead(t)
    \/ AddStreamLock(t)
    \/ AddStreamInsert(t)
    \/ AddStreamSend(t)
    \/ CloseCheck(t)
    \/ CloseDie(t)

\* The panic is dealt with.
Unwind == Crash \/ \E t \in Tasks : Recover(t)

Next == (\E t \in Tasks : Call(t) \/ Step(t)) \/ Unwind

Spec == Init /\ [][Next]_vars

\* The Go scheduler runs every goroutine that can run, and a panic is dealt with.
FairSpec == Spec /\ (\A t \in Tasks : WF_vars(Step(t))) /\ WF_vars(Unwind)

\* Besides: a task that waits in Lock gets the lock when it is free again and
\* again (sync.RWMutex: a waiting writer keeps new readers out and is woken
\* when the holders are gone).
FairLockSpec ==
    /\ FairSpec
    /\ \A t \in Tasks : SF_vars(OpenStreamLock(t) \/ AddStreamLock(t))

(***************************************************************************)
(* The same Session with die allocated (sesh.die = make(chan struct{})),   *)
(* which MakeSession does not do: the only states in which lines 129-141   *)
(* of Close run.                                                           *)
(***************************************************************************)
InitDie ==
    /\ nextStreamID = 1
    /\ streams = EmptyMap
    /\ streamsM = Unlocked
    /\ acceptCh = <<>>
    /\ closeQCh = <<>>
    /\ closingM = NoTask
    /\ die = "open"
    /\ closing = FALSE
    /\ TasksIdle
    /\ ConfIdle

\* With die allocated close(sesh.die) does not panic: there is nothing to unwind.
NextDie == \E t \in Tasks : Call(t) \/ Step(t) \/ CloseSweepLock(t) \/ CloseSweep(t)

SpecDie == InitDie /\ [][NextDie]_vars

(***************************************************************************)
(* The client State: ParseConfig and ssvToJson.                            *)
(*                                                                         *)
(* A Go string is modelled as a sequence of characters. A character is a   *)
(* one-character string, or a word: a run of letters and digits that the   *)
(* code never looks into ("ServerName", "aes"), kept whole.                *)
(***************************************************************************)
BSL == "\\"
QUOTE == "\""

\* strings.Contains(s, c), c one character
Contains(s, c) == \E i \in 1 .. Len(s) : s[i] = c

\* strings.Index(s, c), counted from 1; 0 when c is absent
Index(s, c) ==
    IF Contains(s, c) THEN CHOOSE i \in 1 .. Len(s) : s[i] = c /\ \A j \in 1 .. i - 1 : s[j] # c
    ELSE 0

\* strings.Replace(s, old, new, -1): every non-overlapping old, left to right
RECURSIVE Replace(_, _, _)
Replace(s, old, new) ==
    IF Len(s) < Len(old) THEN s
    ELSE IF SubSeq(s, 1, Len(old)) = old
           THEN new \o Replace(SubSeq(s, Len(old) + 1, Len(s)), old, new)
           ELSE <<Head(s)>> \o Replace(Tail(s), old, new)

\* strings.Split(s, sep): the pieces between the separators, empty ones included
RECURSIVE Split(_, _)
Split(s, sep) ==
    IF ~Contains(s, sep) THEN <<s>>
    ELSE <<SubSeq(s, 1, Index(s, sep) - 1)>>
             \o Split(SubSeq(s, Index(s, sep) + 1, Len(s)), sep)

\* strings.SplitN(s, sep, 2): at most two pieces, cut at the first separator
SplitN2(s, sep) ==
    IF ~Contains(s, sep) THEN <<s>>
    ELSE <<SubSeq(s, 1, Index(s, sep) - 1), SubSeq(s, Index(s, sep) + 1, Len(s))>>

\* Lines 65-70: the three replacements, one after the other, on the whole input
unescape(s) ==
    Replace(Replace(Replace(s, <<BSL, BSL>>, <<BSL>>), <<BSL, "=">>, <<"=">>),
            <<BSL, ";">>, <<";">>)

\* Lines 73-76: the loop runs over the lines up to the first empty one (break)
RECURSIVE UpToEmpty(_)
UpToEmpty(lines) ==
    IF lines = <<>> \/ Head(lines) = <<>> THEN <<>>
    ELSE <<Head(lines)>> \o UpToEmpty(Tail(lines))

\* Lines 82-86: the JSON member written for one line; the two integer keys get
\* no quotation marks around the value
IntKeys == {<<"TicketTimeHint">>, <<"NumConn">>}
Member(key, value) ==
    IF key \in IntKeys
      THEN <<QUOTE>> \o key \o <<QUOTE, ":">> \o value \o <<",">>
      ELSE <<QUOTE>> \o key \o <<QUOTE, ":", QUOTE>> \o value \o <<QUOTE, ",">>

RECURSIVE Members(_)
Members(lines) ==
    IF lines = <<>> THEN <<>>
    ELSE LET sp == SplitN2(Head(lines), "=")
         IN  Member(sp[1], sp[2]) \o Members(Tail(lines))

\* Lines 71-76: lines := strings.Split(unescape(ssv), ";"), up to the break
ssvLines(ssv) == UpToEmpty(Split(unescape(ssv), ";"))

\* Lines 77-79: sp := strings.SplitN(ln, "=", 2); key := sp[0]; value := sp[1].
\* sp[1] is out of range for a line without "=": the function panics.
ssvPanics(ssv) == \E i \in 1 .. Len(ssvLines(ssv)) : ~Contains(ssvLines(ssv)[i], "=")

ssvPairs(ssv) ==
    [i \in 1 .. Len(ssvLines(ssv)) |->
        LET sp == SplitN2(ssvLines(ssv)[i], "=")
        IN  [key |-> sp[1], value |-> sp[2]]]

\* Lines 64-91: "{", the members, the last byte cut off, "}"
ssvToJson(ssv) ==
    IF ssvPanics(ssv) THEN [panic |-> TRUE, bytes |-> <<>>]
    ELSE LET ret == <<"{">> \o Members(ssvLines(ssv))
         IN  [panic |-> FALSE, bytes |-> SubSeq(ret, 1, Len(ret) - 1) \o <<"}">>]

(***************************************************************************)
(* json.Unmarshal(content, &preParse) for the documents met here: one      *)
(* object of string and integer members, without white space.              *)
(***************************************************************************)
\* type rawConfig: the zero value
ZeroRaw ==
    [ServerName |-> <<>>, ProxyMethod |-> <<>>, EncryptionMethod |-> <<>>,
     UID |-> <<>>, PublicKey |-> <<>>, TicketTimeHint |-> 0, BrowserSig |-> <<>>,
     NumConn |-> 0]
StringFields == {"ServerName", "ProxyMethod", "EncryptionMethod", "UID", "PublicKey",
                 "BrowserSig"}
IntFields == {"TicketTimeHint", "NumConn"}

\* The character after a backslash in a JSON string: what the escape stands for,
\* or <<>> when JSON has no such escape. BS, FF, LF, CR, TAB name the control
\* characters; a word's escape is decided by its first letter.
JsonEscape(c) ==
    CASE c = QUOTE -> <<QUOTE>>
      [] c = BSL -> <<BSL>>
      [] c = "/" -> <<"/">>
      [] c = "b" -> <<"BS">>
      [] c = "f" -> <<"FF">>
      [] c = "n" -> <<"LF">>
      [] c = "r" -> <<"CR">>
      [] c = "t" -> <<"TAB">>
      [] c = "blowfish" -> <<"BS", "lowfish">>
      [] OTHER -> <<>>

\* The string that starts after an opening quotation mark at b[i - 1]:
\* [ok, val, next], next the place after the closing quotation mark.
RECURSIVE ScanString(_, _, _)
ScanString(b, i, acc) ==
    IF i > Len(b) THEN [ok |-> FALSE, val |-> <<>>, next |-> i]
    ELSE IF b[i] = QUOTE THEN [ok |-> TRUE, val |-> acc, next |-> i + 1]
    ELSE IF b[i] = BSL
           THEN IF i + 1 > Len(b) \/ JsonEscape(b[i + 1]) = <<>>
                  THEN [ok |-> FALSE, val |-> <<>>, next |-> i]
                  ELSE ScanString(b, i + 2, acc \o JsonEscape(b[i + 1]))
    ELSE ScanString(b, i + 1, Append(acc, b[i]))

Digits == {"0", "1", "2", "3", "4", "5", "6", "7", "8", "9"}
DigitValue(d) == CHOOSE n \in 0 .. 9 : ToString(n) = d
RECURSIVE Decimal(_)
Decimal(ds) ==
    IF ds = <<>> THEN 0 ELSE 10 * Decimal(SubSeq(ds, 1, Len(ds) - 1)) + DigitValue(ds[Len(ds)])

\* The number that starts at b[i]: the digits up to the next "," or "}".
\* Anything but digits there, and a leading zero, is a syntax error.
RECURSIVE LiteralEnd(_, _)
LiteralEnd(b, i) ==
    IF i > Len(b) \/ b[i] \in {",", "}"} THEN i ELSE LiteralEnd(b, i + 1)
ScanNumber(b, i) ==
    LET j == LiteralEnd(b, i)
        ds == SubSeq(b, i, j - 1)
    IN  IF ds # <<>> /\ (\A k \in 1 .. Len(ds) : ds[k] \in Digits)
           /\ (Len(ds) = 1 \/ ds[1] # "0")
          THEN [ok |-> TRUE, val |-> Decimal(ds), next |-> j]
          ELSE [ok |-> FALSE, val |-> 0, next |-> j]

\* The field of rawConfig a member's key names, or "" (the member is skipped).
FieldOf(key) ==
    IF Len(key) = 1 /\ key[1] \in StringFields \cup IntFields THEN key[1] ELSE ""

\* The members from b[i] on: [ok (the syntax), typed (no value of the wrong
\* type), raw]. A value of the wrong type leaves its field alone and Unmarshal
\* goes on, to return the type error at the end.
RECURSIVE ScanMembers(_, _, _, _)
ScanMembers(b, i, raw, typed) ==
    LET bad == [ok |-> FALSE, typed |-> typed, raw |-> raw] IN
    IF i + 1 > Len(b) \/ b[i] # QUOTE THEN bad
    ELSE LET k == ScanString(b, i + 1, <<>>) IN
    IF ~k.ok \/ k.next + 1 > Len(b) \/ b[k.next] # ":" THEN bad
    ELSE LET isStr == b[k.next + 1] = QUOTE
             v == IF isStr THEN ScanString(b, k.next + 2, <<>>)
                           ELSE ScanNumber(b, k.next + 1)
             f == FieldOf(k.val)
             fits == f = "" \/ (isStr /\ f \in StringFields) \/ (~isStr /\ f \in IntFields)
             raw2 == IF f # "" /\ fits THEN [raw EXCEPT ![f] = v.val] ELSE raw
         IN
    IF ~v.ok \/ v.next > Len(b) THEN bad
    ELSE IF b[v.next] = "}"
           THEN [ok |-> v.next = Len(b), typed |-> typed /\ fits, raw |-> raw2]
    ELSE IF b[v.next] = ","
           THEN ScanMembers(b, v.next + 1, raw2, typed /\ fits)
    ELSE bad

\* json.Unmarshal into a zero rawConfig: [ok (err == nil), raw]
Unmarshal(b) ==
    IF Len(b) < 2 \/ b[1] # "{" THEN [ok |-> FALSE, raw |-> ZeroRaw]
    ELSE IF b[2] = "}" THEN [ok |-> Len(b) = 2, raw |-> ZeroRaw]
    ELSE LET m == ScanMembers(b, 2, ZeroRaw, TRUE)
         IN  [ok |-> m.ok /\ m.typed, raw |-> m.raw]

(***************************************************************************)
(* base64.StdEncoding.DecodeString and ecdh.Unmarshal                      *)
(***************************************************************************)
\* The UID and the public key of scenario S1, as words: 24 and 44 characters
\* of base64, the UID with two "=" of padding and the key with one.
UidWord == "AAAAAAAAAAAAAAAAAAAAAA=="
PubWord == "7f7TuKrs264VNSgMno8PkDlyhGhVuOSR8JHLE6H4Ljc="

\* How many characters of the base64 alphabet a character or word stands for
\* (-1: it holds a character outside the alphabet, "=" apart), and its "=" of
\* padding.
B64Chars(c) ==
    CASE c = UidWord -> 22
      [] c = PubWord -> 43
      [] c \in {"a", "b", "c", "d", "f", "n", "r", "t"} \cup Digits -> 1
      [] c \in {"Key", "UID", "aes"} -> 3
      [] c = "plain" -> 5
      [] c = "chrome" -> 6
      [] c = "NumConn" -> 7
      [] c = "blowfish" -> 8
      [] c = "PublicKey" -> 9
      [] c \in {"ServerName", "BrowserSig"} -> 10
      [] c \in {"ProxyMethod", "shadowsocks"} -> 11
      [] c = "TicketTimeHint" -> 14
      [] c = "EncryptionMethod" -> 16
      [] c = "=" -> 0
      [] OTHER -> -1
B64Pad(c) ==
    CASE c = UidWord -> 2
      [] c = PubWord -> 1
      [] c = "=" -> 1
      [] OTHER -> 0

\* The characters of the alphabet in s (those outside it not counted), and
\* its "=" of padding.
RECURSIVE B64CharCount(_)
B64CharCount(s) ==
    IF s = <<>> THEN 0
    ELSE (IF B64Chars(Head(s)) > 0 THEN B64Chars(Head(s)) ELSE 0) + B64CharCount(Tail(s))
RECURSIVE B64PadCount(_)
B64PadCount(s) == IF s = <<>> THEN 0 ELSE B64Pad(Head(s)) + B64PadCount(Tail(s))

\* DecodeString: [ok, bytes]. The input is well formed when its characters are
\* of the alphabet, the padding stands at the end only, and quanta of four
\* characters are complete. The bytes are kept as the text they were decoded from.
DecodeString(s) ==
    LET chars == B64CharCount(s)
        pad == B64PadCount(s)
        padAtEnd == \A i \in 1 .. Len(s) :
                        B64Pad(s[i]) > 0 => \A j \in i + 1 .. Len(s) : B64Chars(s[j]) = 0
        wellFormed == /\ \A i \in 1 .. Len(s) : B64Chars(s[i]) >= 0
                      /\ padAtEnd
                      /\ pad <= 2
                      /\ (chars + pad) % 4 = 0
                      /\ pad > 0 => chars > 0
    IN  IF wellFormed THEN [ok |-> TRUE, bytes |-> [b64 |-> s]]
        ELSE [ok |-> FALSE, bytes |-> [b64 |-> <<>>]]

\* The nil []byte and the nil crypto.PublicKey
NoBytes == [b64 |-> <<"nil">>]
NoKey == [point |-> <<"nil">>]

\* ecdh.Unmarshal(data): [ok, pub]. A public key is 32 bytes: 43 characters of
\* base64 and one of padding.
ecdhUnmarshal(data) ==
    IF B64CharCount(data.b64) = 43 /\ B64PadCount(data.b64) = 1
      THEN [ok |-> TRUE, pub |-> [point |-> data.b64]]
      ELSE [ok |-> FALSE, pub |-> NoKey]

(***************************************************************************)
(* ParseConfig                                                             *)
(***************************************************************************)
errReadFile == "open: no such file or directory"
errJSON == "json: cannot unmarshal"
errUnknownEncryption == "Unknown encryption method"
errUID == "Failed to parse UID"
errPublicKey == "Failed to parse Public key"
errUnmarshalKey == "Failed to unmarshal Public key"
\* The call has not returned.
errNone == "none"

\* Lines 49-59, InitState: the fields ParseConfig writes, at their zero values
InitState ==
    [ProxyMethod |-> <<>>, EncryptionMethod |-> 0, TicketTimeHint |-> 0,
     ServerName |-> <<>>, BrowserSig |-> <<>>, NumConn |-> 0, UID |-> NoBytes,
     staticPub |-> NoKey]

\* A switch without its default case: an unknown name is taken for "plain".
EncryptionCodeNoDefault(name) ==
    CASE name = <<"aes">> -> 1
      [] name = <<"chacha20-poly1305">> -> 2
      [] OTHER -> 0

\* Lines 110-119: the byte of an encryption method's name; -1 is the default case
EncryptionCode(name) ==
    CASE name = <<"plain">> -> 0
      [] name = <<"aes">> -> 1
      [] name = <<"chacha20-poly1305">> -> 2
      [] OTHER -> -1

\* ParseConfig with sta.UID = uid moved before the test of DecodeString's error.
FillUidBeforeTest(s, p) ==
    IF EncryptionCode(p.EncryptionMethod) = -1 THEN [sta |-> s, err |-> errUnknownEncryption]
    ELSE LET s1 == [s EXCEPT !.EncryptionMethod = EncryptionCode(p.EncryptionMethod),
                             !.ProxyMethod = p.ProxyMethod,
                             !.ServerName = p.ServerName,
                             !.TicketTimeHint = p.TicketTimeHint,
                             !.BrowserSig = p.BrowserSig,
                             !.NumConn = p.NumConn,
                             !.UID = DecodeString(p.UID).bytes]
             pubBytes == DecodeString(p.PublicKey)
         IN
    IF ~DecodeString(p.UID).ok THEN [sta |-> s1, err |-> errUID]
    ELSE IF ~pubBytes.ok THEN [sta |-> s1, err |-> errPublicKey]
    ELSE IF ~ecdhUnmarshal(pubBytes.bytes).ok THEN [sta |-> s1, err |-> errUnmarshalKey]
    ELSE [sta |-> [s1 EXCEPT !.staticPub = ecdhUnmarshal(pubBytes.bytes).pub],
          err |-> errNil]

\* Lines 110-142: from preParse to the State: [sta, err]
Fill(s, p) ==
    IF EncryptionCode(p.EncryptionMethod) = -1 THEN [sta |-> s, err |-> errUnknownEncryption]
    ELSE LET s1 == [s EXCEPT !.EncryptionMethod = EncryptionCode(p.EncryptionMethod),
                             !.ProxyMethod = p.ProxyMethod,
                             !.ServerName = p.ServerName,
                             !.TicketTimeHint = p.TicketTimeHint,
                             !.BrowserSig = p.BrowserSig,
                             !.NumConn = p.NumConn]
             uid == DecodeString(p.UID)
         IN
    IF ~uid.ok THEN [sta |-> s1, err |-> errUID]
    ELSE LET s2 == [s1 EXCEPT !.UID = uid.bytes]
             pubBytes == DecodeString(p.PublicKey)
         IN
    IF ~pubBytes.ok THEN [sta |-> s2, err |-> errPublicKey]
    ELSE IF ~ecdhUnmarshal(pubBytes.bytes).ok THEN [sta |-> s2, err |-> errUnmarshalKey]
    ELSE [sta |-> [s2 EXCEPT !.staticPub = ecdhUnmarshal(pubBytes.bytes).pub],
          err |-> errNil]

\* Two ParseConfig calls are followed, each on a State of its own: one is given
\* the single-line form, the other the path of a file.
Runs == {"inline", "file"}
Arg(r) == IF r = "inline" THEN conf.inline ELSE conf.path

\* Line 96: the argument is taken for the single-line form
IsSsv(c) == Contains(c, ";") /\ Contains(c, "=")

\* The call of run r returns e.
ConfReturn(r, e) ==
    /\ err' = [err EXCEPT ![r] = e]
    /\ cpc' = [cpc EXCEPT ![r] = "done"]

\* Lines 95-103: content = ssvToJson(conf), or content, err = ioutil.ReadFile(conf)
ParseConfigRead(r) ==
    /\ cpc[r] = "start"
    /\ IF IsSsv(Arg(r))
         THEN IF ssvToJson(Arg(r)).panic
                THEN /\ ConfReturn(r, errPanic)
                     /\ UNCHANGED <<content, kv>>
                ELSE /\ content' = [content EXCEPT ![r] = ssvToJson(Arg(r)).bytes]
                     /\ kv' = [kv EXCEPT ![r] = ssvPairs(Arg(r))]
                     /\ cpc' = [cpc EXCEPT ![r] = "read"]
                     /\ UNCHANGED err
         ELSE IF file.exists /\ Arg(r) = conf.path
                THEN /\ content' = [content EXCEPT ![r] = file.content]
                     /\ cpc' = [cpc EXCEPT ![r] = "read"]
                     /\ UNCHANGED <<err, kv>>
                ELSE /\ ConfReturn(r, errReadFile)
                     /\ UNCHANGED <<content, kv>>
    /\ UNCHANGED <<seshVars, cfg, conf, file, sta, pre>>

\* Lines 104-108: err = json.Unmarshal(content, &preParse)
ParseConfigUnmarshal(r) ==
    /\ cpc[r] = "read"
    /\ IF Unmarshal(content[r]).ok
         THEN /\ pre' = [pre EXCEPT ![r] = Unmarshal(content[r]).raw]
              /\ cpc' = [cpc EXCEPT ![r] = "parsed"]
              /\ UNCHANGED err
         ELSE /\ ConfReturn(r, errJSON)
              /\ UNCHANGED pre
    /\ UNCHANGED <<seshVars, cfg, conf, file, sta, content, kv>>

\* Lines 110-142: the switch, the assignments, the UID and the public key
ParseConfigFill(r) ==
    /\ cpc[r] = "parsed"
    /\ sta' = [sta EXCEPT ![r] = Fill(sta[r], pre[r]).sta]
    /\ ConfReturn(r, Fill(sta[r], pre[r]).err)
    /\ UNCHANGED <<seshVars, cfg, conf, file, content, pre, kv>>

(***************************************************************************)
(* The inputs of ParseConfig.                                              *)
(***************************************************************************)
\* Longest single-line input made of single characters.
MaxLen == 4
\* Longest ServerName of a configuration.
MaxValLen == 2

Strings(chars, n) == UNION {[1 .. k -> chars] : k \in 0 .. n}

\* Section 6 of the specification: the fields of a configuration, in the order
\* of scenario S1, and S1 itself.
Keys == <<"ServerName", "ProxyMethod", "EncryptionMethod", "UID", "PublicKey",
          "TicketTimeHint", "BrowserSig", "NumConn">>
S1 ==
    [ServerName |-> <<"www.example.com">>, ProxyMethod |-> <<"shadowsocks">>,
     EncryptionMethod |-> <<"aes">>, UID |-> <<UidWord>>, PublicKey |-> <<PubWord>>,
     TicketTimeHint |-> <<"3", "6", "0", "0">>, BrowserSig |-> <<"chrome">>,
     NumConn |-> <<"4">>]

\* The configurations: S1, and S1 with one field set to another value.
Configs ==
    {S1}
    \cup {[S1 EXCEPT !.ServerName = v] : v \in Strings({"a", ";", "=", BSL}, MaxValLen)}
    \cup {[S1 EXCEPT !.EncryptionMethod = <<m>>] :
             m \in {"plain", "aes", "chacha20-poly1305", "blowfish"}}
    \cup {[S1 EXCEPT !.UID = <<"a">>], [S1 EXCEPT !.PublicKey = <<UidWord>>],
           [S1 EXCEPT !.PublicKey = <<"a">>, !.ServerName = <<"a">>]}

\* Section 6: the single-line form, Key1=Value1;Key2=Value2;..., with "\", "="
\* and ";" of a value written "\\", "\=" and "\;".
RECURSIVE EscapeSsv(_)
EscapeSsv(v) ==
    IF v = <<>> THEN <<>>
    ELSE (IF Head(v) \in {BSL, "=", ";"} THEN <<BSL, Head(v)>> ELSE <<Head(v)>>)
             \o EscapeSsv(Tail(v))
RECURSIVE EncodeSsvFrom(_, _)
EncodeSsvFrom(c, i) ==
    <<Keys[i], "=">> \o EscapeSsv(c[Keys[i]])
        \o (IF i = Len(Keys) THEN <<>> ELSE <<";">> \o EncodeSsvFrom(c, i + 1))
EncodeSsv(c) == EncodeSsvFrom(c, 1)

\* Section 6: the JSON document of a configuration ("\" and the quotation mark
\* of a string written "\\" and "\"", the two integers without quotation marks).
RECURSIVE EscapeJson(_)
EscapeJson(v) ==
    IF v = <<>> THEN <<>>
    ELSE (IF Head(v) \in {BSL, QUOTE} THEN <<BSL, Head(v)>> ELSE <<Head(v)>>)
             \o EscapeJson(Tail(v))
RECURSIVE EncodeJsonFrom(_, _)
EncodeJsonFrom(c, i) ==
    (IF <<Keys[i]>> \in IntKeys
       THEN <<QUOTE, Keys[i], QUOTE, ":">> \o c[Keys[i]]
       ELSE <<QUOTE, Keys[i], QUOTE, ":", QUOTE>> \o EscapeJson(c[Keys[i]]) \o <<QUOTE>>)
        \o (IF i = Len(Keys) THEN <<"}">> ELSE <<",">> \o EncodeJsonFrom(c, i + 1))
EncodeJson(c) == <<"{">> \o EncodeJsonFrom(c, 1)

\* Scenario S7, and an unknown encryption method in the single-line form.
S7 == <<"Key", "=", "a", BSL, ";", "b", BSL, "=", "c", BSL, BSL, "d">>
S2 == <<"EncryptionMethod", "=", "blowfish", ";">>

\* Single-line inputs that come from no configuration.
RawInputs == Strings({"Key", "a", ";", "=", BSL}, MaxLen) \cup {S7, S2}

NoConfig == <<>>
ConfigPath == <<"config.json">>

\* The State before the call: as InitState made it, or as an earlier successful
\* ParseConfig (of S1's document) left it.
PriorStates == {InitState, Fill(InitState, Unmarshal(EncodeJson(S1)).raw).sta}

InitConfig ==
    /\ MakeSession /\ TasksIdle
    /\ \/ \E c \in Configs :
             /\ cfg = c
             /\ conf = [inline |-> EncodeSsv(c), path |-> ConfigPath]
             /\ file = [exists |-> TRUE, content |-> EncodeJson(c)]
       \/ \E raw \in RawInputs :
             /\ cfg = NoConfig
             /\ conf = [inline |-> raw, path |-> ConfigPath]
             /\ file = [exists |-> FALSE, content |-> <<>>]
    /\ \E s \in PriorStates : sta = [r \in Runs |-> s]
    /\ err = [r \in Runs |-> errNone]
    /\ cpc = [r \in Runs |-> "start"]
    /\ content = [r \in Runs |-> <<>>]
    /\ pre = [r \in Runs |-> ZeroRaw]
    /\ kv = [r \in Runs |-> <<>>]

NextConfig ==
    \E r \in Runs : ParseConfigRead(r) \/ ParseConfigUnmarshal(r) \/ ParseConfigFill(r)

SpecConfig == InitConfig /\ [][NextConfig]_vars

(***************************************************************************)
(* Properties of ParseConfig and ssvToJson.                                *)
(***************************************************************************)
\* C7: for every configuration, ParseConfig of the single-line form leaves the
\* State with the same field values as ParseConfig of the JSON document, and
\* fails exactly when that one fails.
ConfigFormsAgree ==
    (cfg # NoConfig /\ cpc["inline"] = "done" /\ cpc["file"] = "done")
        => /\ sta["inline"] = sta["file"]
           /\ err["inline"] = errNil <=> err["file"] = errNil

\* The single-line form as section 6 of the specification defines it, read in
\* one pass from the left: "\\", "\=" and "\;" are the literal characters "\",
\* "=" and ";"; any other ";" ends a segment and the first other "=" of a
\* segment ends its key.
RECURSIVE RefChars(_)
RefChars(s) ==
    IF s = <<>> THEN <<>>
    ELSE IF Head(s) = BSL /\ Len(s) >= 2 /\ s[2] \in {BSL, "=", ";"}
           THEN <<[c |-> s[2], lit |-> TRUE]>> \o RefChars(SubSeq(s, 3, Len(s)))
           ELSE <<[c |-> Head(s), lit |-> FALSE]>> \o RefChars(Tail(s))
RefSep == [c |-> ";", lit |-> FALSE]
RefEq == [c |-> "=", lit |-> FALSE]
RefNonEmpty(seg) == seg # <<>>
RefSegments(s) == SelectSeq(Split(RefChars(s), RefSep), RefNonEmpty)
RefText(cs) == [i \in 1 .. Len(cs) |-> cs[i].c]
RefWellFormed(s) == \A i \in 1 .. Len(RefSegments(s)) : Contains(RefSegments(s)[i], RefEq)
RefPairs(s) ==
    [i \in 1 .. Len(RefSegments(s)) |->
        LET sp == SplitN2(RefSegments(s)[i], RefEq)
        IN  [key |-> RefText(sp[1]), value |-> RefText(sp[2])]]

\* C8: an escaped separator inside a value is taken literally and does not
\* split the input: 'Key=a\;b\=c\\d' yields the one pair Key, 'a;b=c\d'; and in
\* general the pairs are those of the unescaped-';'-separated non-empty
\* segments, with the escapes decoded.
SsvEscapesLiteral ==
    /\ (conf.inline = S7 /\ cpc["inline"] # "start")
          => kv["inline"] = <<[key |-> <<"Key">>,
                               value |-> <<"a", ";", "b", "=", "c", BSL, "d">>]>>
    /\ (IsSsv(conf.inline) /\ RefWellFormed(conf.inline) /\ cpc["inline"] # "start")
          => (err["inline"] # errPanic /\ kv["inline"] = RefPairs(conf.inline))

EncryptionNames == {<<"plain">>, <<"aes">>, <<"chacha20-poly1305">>}

\* C9: the step of ParseConfig that fills the State maps the EncryptionMethod
\* "plain", "aes", "chacha20-poly1305" of the document to the bytes 0, 1, 2; for
\* any other string it returns the unknown-encryption error and leaves every
\* field of the State as it was.
EncryptionMethodMapped ==
    [][\A r \in Runs : (cpc[r] = "parsed" /\ cpc'[r] = "done") =>
          /\ (cfg # NoConfig /\ r = "file")
                => pre[r].EncryptionMethod = cfg.EncryptionMethod
          /\ pre[r].EncryptionMethod = <<"plain">> => sta'[r].EncryptionMethod = 0
          /\ pre[r].EncryptionMethod = <<"aes">> => sta'[r].EncryptionMethod = 1
          /\ pre[r].EncryptionMethod = <<"chacha20-poly1305">>
                => sta'[r].EncryptionMethod = 2
          /\ pre[r].EncryptionMethod \notin EncryptionNames
                => (err'[r] = errUnknownEncryption /\ sta'[r] = sta[r])
       ]_vars

\* C9 witness: the document named the method "blowfish"; ParseConfig returned
\* the unknown-encryption error and the State, configured before, is as it was.
EncryptionUnknownRejected ==
    /\ cfg # NoConfig /\ cfg.EncryptionMethod = <<"blowfish">>
    /\ cpc["file"] = "done" /\ err["file"] = errUnknownEncryption
    /\ sta["file"] # InitState /\ sta["file"].EncryptionMethod = 1

\* C18 as claimed: ParseConfig is all-or-nothing: no step of a call changes
\* the State unless it is the step by which the call returns nil.
ParseConfigAllOrNothing ==
    [][\A r \in Runs : err'[r] # errNil => sta'[r] = sta[r]]_vars

\* The State of lines 112-125: the six fields set from preParse.
Assigned(s, p) ==
    [s EXCEPT !.EncryptionMethod = EncryptionCode(p.EncryptionMethod),
              !.ProxyMethod = p.ProxyMethod,
              !.ServerName = p.ServerName,
              !.TicketTimeHint = p.TicketTimeHint,
              !.BrowserSig = p.BrowserSig,
              !.NumConn = p.NumConn]

\* C18 as amended: a call that fails on the file, on the JSON or on the
\* encryption method (or aborts in ssvToJson) leaves the State as it was; a call
\* that fails on the UID has set EncryptionMethod, ProxyMethod, ServerName,
\* TicketTimeHint, BrowserSig and NumConn from the document and nothing else; a
\* call that fails on the public key has set these and the UID; staticPub is
\* set only by a call that returns nil.
ParseConfigErrorState ==
    [][\A r \in Runs : (cpc[r] # "done" /\ cpc'[r] = "done") =>
          /\ err'[r] \in {errReadFile, errJSON, errUnknownEncryption, errPanic}
                => sta'[r] = sta[r]
          /\ err'[r] = errUID => sta'[r] = Assigned(sta[r], pre[r])
          /\ err'[r] \in {errPublicKey, errUnmarshalKey}
                => sta'[r] = [Assigned(sta[r], pre[r])
                                 EXCEPT !.UID = DecodeString(pre[r].UID).bytes]
          /\ err'[r] # errNil => sta'[r].staticPub = sta[r].staticPub
       ]_vars

\* C18 witness: the document's UID is not base64; ParseConfig, called on a
\* State fresh from InitState, returned the UID error and the State holds the
\* document's encryption method and server name, with no UID.
ParseConfigFailedHalfFilled ==
    /\ cfg # NoConfig /\ cfg.UID = <<"a">>
    /\ cpc["file"] = "done" /\ err["file"] = errUID
    /\ sta["file"].EncryptionMethod = 1 /\ sta["file"].ServerName = cfg.ServerName
    /\ sta["file"].UID = NoBytes /\ sta["file"].staticPub = NoKey

\* C19: ParseConfig never aborts on a malformed single-line input: for every
\* argument that holds both ";" and "=" (and was not written from a
\* configuration), ssvToJson ends with a byte string and the call returns nil
\* or one of its errors.
SsvNeverAborts ==
    \A r \in Runs :
        (cfg = NoConfig /\ IsSsv(Arg(r)) /\ cpc[r] # "start") =>
            /\ err[r] # errPanic
            /\ cpc[r] = "read" => content[r] = ssvToJson(Arg(r)).bytes
            /\ cpc[r] = "done"
                  => err[r] \in {errNil, errJSON, errUnknownEncryption, errUID,
                                 errPublicKey, errUnmarshalKey}

(***************************************************************************)
(* Properties of the Session.                                              *)
(***************************************************************************)
\* Task t takes a step of an OpenStream call.
OpenStreamStep(t) ==
    /\ pc'[t] # pc[t]
    /\ pc[t] \in OpenLabels \/ pc'[t] \in OpenLabels

\* C1: the first Close of a Session built by MakeSession completes normally: no
\* Close aborts part-way (no panic leaves it), and a Close that is not a repeated
\* one returns no error, with closing set and die raised.
CloseFirstCallCompletes ==
    /\ \A t \in Tasks : pc[t] # "panicked"
    /\ (last.op = "Close" /\ last.err # errRepeatSessionClosing)
          => (last.err = errNil /\ closing /\ die = "closed")

\* C2: once Close has been called (closing is set), an AcceptStream call that is
\* waiting does not wait for ever: it returns (while the process runs).
AcceptStreamReturnsAfterClose ==
    \A t \in Tasks : (closing /\ pc[t] = "accept") ~> (pc[t] # "accept" \/ ~alive)

\* C3: exactly one Close call performs the shutdown: whenever a Close call has
\* been answered "trying to close a closed session", one call, and only one,
\* has raised die and swept the stream table.
CloseExactlyOneShutdown ==
    (last.op = "Close" /\ last.err = errRepeatSessionClosing)
        => (Cardinality(shutdowns) = 1 /\ die = "closed")

\* C4: the ids OpenStream has returned are pairwise distinct, and when no two
\* OpenStream calls ran concurrently they are 1, 2, 3, ... in call order.
OpenStreamIdsDistinct ==
    /\ \A i, j \in 1 .. Len(olog) : i # j => olog[i] # olog[j]
    /\ ~overlap => \A i \in 1 .. Len(olog) : olog[i] = i

\* C4 witness: three OpenStream calls have returned, two of them concurrent.
OpenStreamConcurrentReturned == overlap /\ Len(olog) = 3

\* C5: addStream applies drop-tail: a task that reaches the send on acceptCh
\* while the queue holds its full capacity is not blocked; it can go on and return.
AddStreamNeverBlocks ==
    \A t \in Tasks :
        (alive /\ pc[t] = "addSend" /\ Len(acceptCh) = acceptBacklog)
            => ENABLED AddStreamSend(t)

\* C6: every step of OpenStream leaves the accept queue, the close-notify queue,
\* closing and die unchanged; the stream table changes only at the return, where
\* it gains the returned Stream under the returned id and keeps every other entry.
OpenStreamChangesOnlyTable ==
    [][\A t \in Tasks : OpenStreamStep(t) =>
          /\ UNCHANGED <<acceptCh, closeQCh, closing, die>>
          /\ \/ UNCHANGED streams
             \/ /\ pc'[t] = "idle"
                /\ last'.task = t /\ last'.op = "OpenStream" /\ last'.err = errNil
                /\ last'.stream # NoStream
                /\ DOMAIN streams' = (DOMAIN streams) \cup {last'.stream.id}
                /\ streams'[last'.stream.id] = last'.stream
                /\ \A k \in (DOMAIN streams) \ {last'.stream.id} :
                      streams'[k] = streams[k]
       ]_vars

\* C6 witness: OpenStream has just returned stream 2 into a table that holds
\* another entry, while the accept queue holds a stream.
OpenStreamReturnedSecond ==
    /\ last.op = "OpenStream" /\ last.stream.id = 2
    /\ {1, 2} \subseteq DOMAIN streams /\ streams[2] = last.stream
    /\ acceptCh # <<>>

\* Line 128 of Close has run: closing is set and no task still stands before
\* close(sesh.die).
DieRaised == closing /\ \A t \in Tasks : pc[t] # "closeDie"

\* C10: once die has been raised by Close, no Stream is inserted into the stream
\* table: no step adds an entry or replaces one.
NoInsertAfterDie ==
    [][DieRaised => \A k \in DOMAIN streams' :
                        k \in DOMAIN streams /\ streams'[k] = streams[k]]_vars

\* C11: once die has been raised by Close, no AcceptStream call returns a
\* Stream, whatever the accept queue holds: every AcceptStream that returns
\* from then on returns a nil Stream and the 'broken session' error.
NoStreamAcceptedAfterDie ==
    [][\A t \in Tasks :
          (DieRaised /\ pc[t] = "accept" /\ pc'[t] = "idle")
              => (last'.stream = NoStream /\ last'.err = errBrokenSession)]_vars

\* The Stream objects some task, the table, the accept queue or a caller holds.
Objects ==
    ({strm[t] : t \in Tasks} \cup {streams[k] : k \in DOMAIN streams}
        \cup {acceptCh[i] : i \in 1 .. Len(acceptCh)} \cup spawned \cup {last.stream})
    \ {NoStream}

\* C12: stream ids are unique within a Session. As long as every addStream call
\* was made for an id the table did not hold (the isStream check of the inbound
\* handling had answered false), no two distinct Stream objects have the same
\* id, and no insertion replaces the Stream an entry of the table holds.
StreamIdsUnique ==
    [][~unchecked' =>
          /\ \A x, y \in Objects' : x.id = y.id => x = y
          /\ \A k \in (DOMAIN streams) \cap (DOMAIN streams') : streams'[k] = streams[k]
       ]_vars

\* Stream a was inserted by addStream and no AcceptStream has returned it yet:
\* it is in the accept queue, or its addStream has not sent it.
NotYetAccepted(a) ==
    \/ \E i \in 1 .. Len(acceptCh) : acceptCh[i] = a
    \/ \E u \in Tasks : pc[u] = "addSend" /\ strm[u] = a

\* C13: the accept queue preserves the order of first observation. When
\* AcceptStream returns a peer-opened stream b, every stream a of another id
\* that addStream inserted into the table before b has been returned already
\* (every addStream call having been made for an id the table did not hold).
AcceptOrderPreserved ==
    [][\A t \in Tasks :
          (~unchecked /\ pc[t] = "accept" /\ pc'[t] = "idle" /\ last'.stream # NoStream)
              => \A i, j \in 1 .. Len(ilog) :
                    (i < j /\ ilog[j] = last'.stream /\ ilog[i].id # ilog[j].id)
                        => ~NotYetAccepted(ilog[i])
       ]_vars

CloseLabels == {"closeCheck", "closeDie", "closeSweepLock", "closeSweep"}
LockWaitLabels == {"openLock", "addLock", "closeSweepLock"}

\* C14: shutdown never deadlocks: a task that waits for the stream-table lock
\* gets it (while the process runs), and a Close call that holds the close
\* mutex returns, with nil or with the repeated-close error.
ShutdownNeverDeadlocks ==
    \A t \in Tasks :
        /\ (pc[t] \in LockWaitLabels) ~> (pc[t] \notin LockWaitLabels \/ ~alive)
        /\ (pc[t] \in CloseLabels)
              ~> (last.task = t /\ last.op = "Close"
                  /\ last.err \in {errNil, errRepeatSessionClosing})

\* Task t holds the stream-table lock, as the writer or as a reader.
HoldsTable(t) == streamsM.w = t \/ t \in streamsM.r

\* The places between a Lock or RLock of streamsM and its Unlock.
WriteLabels == {"openInsert", "addInsert", "delDelete", "closeSweep"}
ReadLabels == {"isRead", "getRead"}

\* Task t goes on in the call it is in, the sweep of Close included.
Advance(t) == Step(t) \/ CloseSweepLock(t) \/ CloseSweep(t)

\* C15: no task suspends or calls into a Stream while it holds the stream-table
\* lock: a holder stands inside a critical section, never at the send to the
\* accept queue or at another wait, and its next step can always be taken: it
\* releases the lock and touches neither queue nor die.
TableLockNeverHeldAcrossWait ==
    \A t \in Tasks :
        HoldsTable(t) =>
            /\ pc[t] \in WriteLabels \cup ReadLabels
            /\ alive => ENABLED (/\ Advance(t)
                                 /\ streamsM'.w # t /\ t \notin streamsM'.r
                                 /\ UNCHANGED <<acceptCh, closeQCh, die>>)

\* C15 witness: a task is suspended at the send of addStream, the accept queue
\* being full, while another task holds the table lock and deletes an entry.
AddStreamBlockedLockFree ==
    \E t, u \in Tasks :
        /\ pc[t] = "addSend" /\ Len(acceptCh) = acceptBacklog
        /\ pc[u] = "delDelete" /\ streamsM.w = u /\ sid[u] \in DOMAIN streams

Range(m) == {m[k] : k \in DOMAIN m}

ExclusiveAccess ==
    /\ \A t \in Tasks : pc[t] \in WriteLabels => streamsM.w = t
    /\ \A t \in Tasks : pc[t] \in ReadLabels => (t \in streamsM.r /\ streamsM.w = NoTask)
    /\ streamsM.w # NoTask => streamsM.r = {}

\* C17: every access to the stream table happens under streamsM in the right
\* mode: a task that is about to modify the map holds the write lock, a task
\* that is about to read it holds the read lock, no writer coexists with a
\* reader or another writer, and the map changes only by a step of the writer.
TableAccessUnderLock ==
    [][/\ ExclusiveAccess'
       /\ streams' # streams
             => \E t \in Tasks : streamsM.w = t /\ pc[t] \in WriteLabels /\ pc'[t] # pc[t]
      ]_vars

\* C17 witness: OpenStream waits at Lock while addStream, holding the write
\* lock, is about to insert into a table that already has an entry.
WriterWaitsForWriter ==
    \E t, u \in Tasks :
        /\ pc[t] = "openLock"
        /\ pc[u] = "addInsert" /\ streamsM.w = u /\ streams # EmptyMap

====
